---- MODULE Spec2Model ----
(***************************************************************************)
(* Verification model of mapchete's raster input sessions                  *)
(* (mapchete/io_utils/raster_data.py: RasterFileTile, RasterProcessTile,   *)
(* Sentinel2Tile and the band cache they share), of the window resolution  *)
(* and the tile writer of modules/tilematrix_io.py and of the cp command   *)
(* (mapchete/cli/default/cp.py).                                           *)
(*                                                                         *)
(* The specifications of the module share its variables:                   *)
(*   Spec           one session object, from construction to __exit__,     *)
(*                  with the lazy results (generators) its read hands out; *)
(*   SpecSessions   several session objects side by side;                  *)
(*   SpecOpen       the construction of a session;                         *)
(*   SpecComposite  the per-band compositor of Sentinel2Tile, one          *)
(*                  reference-system group per step;                       *)
(*   SpecMosaic     the mosaics of the reference-system groups;            *)
(*   SpecWindow     read_raster_window's window resolution;                *)
(*   SpecWrite      write_raster_window;                                   *)
(*   SpecCopy       cp and _copy.                                          *)
(***************************************************************************)
EXTENDS Integers, Sequences, FiniteSets, TLC

(* ------------------------------ bounds --------------------------------- *)
\* pixels of the tile, flattened (self.shape = height * width)
NPix == 2
\* band count of the source (self.indexes = profile["count"])
NBands == 2
\* existing source tiles of a process output under the tile
MaxTiles == 1
\* granules of a Sentinel-2 product
MaxGranules == 2

\* largest height and width of a source raster, in pixels
MaxExtent == 2
\* how far a requested window may reach beyond the source, in pixels
MaxOver == 2
\* largest side of a tile of the matrix, in pixels
MaxTilePx == 1
\* largest pixelbuffer
MaxBuffer == 1
\* tiles of the pyramid that cp finds in the area and zoom levels asked for
MaxCpTiles == 2
\* largest height and width of the array handed to write_raster_window
MaxData == 4

Pixels == 1..NPix
Bands == 1..NBands

(* ---------------------------- masked arrays ---------------------------- *)
\* the source's nodata value (self.nodata)
Nodata == -1
\* valid pixel values of the int16 sources (0 is what numpy's zeros holds)
Values == {0, 1}
\* reference-system identifiers of the granules
Srids == {"utm32", "utm33"}

\* numpy.ma.masked_array(data, mask)
masked_array(d, m) == [data |-> d, mask |-> m]

\* masked_array(zeros(self.shape, dtype=self.dtype), mask=True)
zeros_masked == masked_array([p \in Pixels |-> 0], [p \in Pixels |-> TRUE])

\* band.mask.all()
mask_all(band) == \A p \in DOMAIN band.mask : band.mask[p]

\* "no entry": the value of a band index that is not a key of the dictionary
NoBand == [data |-> <<>>, mask |-> <<>>]

\* What read_raster_window(...).next() of mapchete.io_utils.raster_io can
\* return: a masked array of the tile's shape in which exactly the pixels
\* equal to nodata are masked (the nodata-filled array included, which is
\* also what a failed warp resolves to).
ReadArrays ==
    { masked_array(d, [p \in Pixels |-> d[p] = Nodata]) :
        d \in [Pixels -> Values \cup {Nodata}] }

\* The outcomes a session's window read is drawn from: the nodata-filled
\* array and an array whose first pixel alone is valid.
SessionReads ==
    { a \in ReadArrays :
        /\ a.data[1] \in {Nodata, 1}
        /\ \A p \in Pixels \ {1} : a.data[p] = Nodata }

(* ------------------------------ compositor ----------------------------- *)
\* A plausible slip: the later group overwrites every pixel.
merge_overwrite(band, srid_band) ==
    masked_array(srid_band.data, srid_band.mask)

\* A plausible slip: the pixel value is taken first-wins, the mask last-wins.
merge_mask_overwrite(band, srid_band) ==
    masked_array(
        [p \in Pixels |-> IF band.mask[p] THEN srid_band.data[p] ELSE band.data[p]],
        srid_band.mask)

\* One pass of the merge loop:
\*   band = masked_array(data=np.where(band.mask, srid_band, band),
\*                       mask=np.where(band.mask, srid_band.mask, band.mask))
merge_group(band, srid_band) ==
    masked_array(
        [p \in Pixels |-> IF band.mask[p] THEN srid_band.data[p] ELSE band.data[p]],
        [p \in Pixels |-> IF band.mask[p] THEN srid_band.mask[p] ELSE band.mask[p]])

\* for srid_band in srid_bands: band = merge(band, srid_band), from the
\* all-invalid array
RECURSIVE merge_bands(_, _)
merge_bands(band, srid_bands) ==
    IF srid_bands = <<>> THEN band
    ELSE merge_bands(merge_group(band, Head(srid_bands)), Tail(srid_bands))

\* the orders in which a dictionary of n keys may hand out its values
Orders(n) == { o \in [1..n -> 1..n] : \A i, j \in 1..n : o[i] = o[j] => i = j }

(* ------------------------------ the session ---------------------------- *)
VARIABLES
    kind,              \* "file" RasterFileTile, "process" RasterProcessTile, "s2" Sentinel2Tile
    tile_paths,        \* RasterProcessTile: the existing source tiles (_get_src_tile_paths)
    granules,          \* Sentinel2Tile: input_file.granules, the srid of each
    band_count,        \* self.indexes = profile["count"], the bands of the source
    phase,             \* "open" from construction to __exit__, then "closed"
    np_band_cache,     \* self._np_band_cache: band index -> masked array
    band_paths_cache,  \* self._band_paths_cache: band index -> (srid -> band paths)
    gen,               \* the lazy result of read the caller still holds
    ret,               \* what the last call handed back
    nreads,            \* window reads done per band index since the cache was created
    first,             \* per band index, the array its first request in the open session got
    \* the compositor of Sentinel2Tile._bands_from_cache, for one band
    srid_groups,       \* the arrays read for the srid groups, in the order of the granules
    values_order,      \* the order in which the dictionary hands the groups out
    n_merged,          \* how many groups the merge loop has taken
    composite,         \* the running result of the merge loop ("band")
    builds,            \* per group, in the order of the loop, how building its VRT ended
    n_collected,       \* how many groups the loop over .values() has read into srid_bands
    mosaic_pc,         \* where the else branch of lines 358-388 stands
    \* the window resolution of read_raster_window
    source_shape,      \* (height, width) of the source
    requested,         \* minrow, maxrow, mincol, maxcol as source.index gives them
    window,            \* rows and cols after clean_pixel_coordinates, with the four offsets
    window_data,       \* the array read from the window, then padded
    tile,              \* the tile asked for: px_per_tile of its matrix and the pixelbuffer
    warp,              \* "off" without tilify, else how reproject ended: "ok" or "failed"
    tile_data,         \* the array read_raster_window returns, or None
    pc,                \* where read_raster_window stands
    \* the construction of a session (__init__)
    opening,           \* the arguments of the constructor and whether the source is on disk
    open_pc,           \* the statement __init__ stands at, "constructed" or "raised"
    touched,           \* what __init__ has accessed so far: "filesystem", "metadata"
    error,             \* the exception that left __init__, "" when none did
    \* several session objects side by side
    dicts,             \* the dictionary objects that serve as band caches, by identity
    cache_of,          \* per session, the dictionary its _np_band_cache is bound to
    phases,            \* per session, "open" or "closed"
    last,              \* the last call: the session it was made on and what it gave
    \* copying a tile directory (cp and _copy)
    src_files,         \* the source directory: per path, the file's content or Absent
    dst_files,         \* the destination directory: per path, the file's content or Absent
    dst_dirs,          \* the directories that exist at the destination
    overwrite,         \* the overwrite argument cp was called with
    cp_pc,             \* the run of cp, the statement it stands at, the tiles it has passed
    dst_at_call,       \* the files of the destination when cp was called the first time
    \* writing a tile (write_raster_window)
    write_args,        \* tilematrix, tileindex, pixelbuffer and rasterdata of the call
    metadata,          \* the metadata dictionary passed in (dst_metadata is the same object)
    px_window,         \* px_top, px_bottom, px_left, px_right of lines 180-183
    dst_data,          \* the slice of rasterdata that is handed to write_band
    write_pc           \* where write_raster_window stands

\* the generator object of _bands_from_cache: the indexes it walks, how many
\* it has yielded and whether its local temp_vrt holds a NamedTemporaryFile
\* (the file is on disk for as long as that object is referenced); NoGen
\* when the caller holds none
NoGen == [req |-> <<>>, pos |-> 0, temp_vrt |-> FALSE]

\* The forms of the indexes argument: None, a number, a list of band indexes
\* of the source (the empty list, one index, two indexes in any order,
\* repeated or not).
Requests ==
    {[t |-> "none", v |-> <<>>]}
    \cup {[t |-> "int", v |-> <<i>>] : i \in 0..band_count}
    \cup {[t |-> "list", v |-> l] :
             l \in {<<>>} \cup {<<i>> : i \in 1..band_count}
                          \cup {<<i, j>> : i, j \in 1..band_count}}

\* A plausible slip: range(1, inp_handler.indexes), the last band left out.
get_band_indexes_short_range(indexes) ==
    IF (indexes.t = "int" /\ indexes.v[1] # 0) \/ (indexes.t = "list" /\ indexes.v # <<>>)
    THEN IF indexes.t = "list" THEN indexes.v ELSE <<indexes.v[1]>>
    ELSE [i \in 1..(band_count - 1) |-> i]

\* _get_band_indexes(inp_handler, indexes)
get_band_indexes(indexes) ==
    IF (indexes.t = "int" /\ indexes.v[1] # 0) \/ (indexes.t = "list" /\ indexes.v # <<>>)
    THEN IF indexes.t = "list" THEN indexes.v ELSE <<indexes.v[1]>>
    ELSE [i \in 1..band_count |-> i]

\* A plausible slip: the list of a srid is set anew for each granule, so
\* that only the last granule of a srid stays in its group.
RECURSIVE group_band_paths_overwrite(_, _, _)
group_band_paths_overwrite(band_index, i, band_paths) ==
    IF i > Len(granules) THEN band_paths
    ELSE group_band_paths_overwrite(band_index, i + 1,
            (granules[i] :> <<<<i, band_index>>>>) @@ band_paths)

\* the loop of Sentinel2Tile._get_band_paths: granule i joins the list of its srid
RECURSIVE group_band_paths(_, _, _)
group_band_paths(band_index, i, band_paths) ==
    IF i > Len(granules) THEN band_paths
    ELSE LET srid == granules[i]
             sofar == IF srid \in DOMAIN band_paths THEN band_paths[srid] ELSE <<>>
         IN group_band_paths(band_index, i + 1,
                (srid :> Append(sofar, <<i, band_index>>)) @@ band_paths)

\* Sentinel2Tile._get_band_paths(band_index): the cache after the call
get_band_paths(paths_cache, band_index) ==
    IF band_index \in DOMAIN paths_cache THEN paths_cache
    ELSE (band_index :> group_band_paths(band_index, 1, <<>>)) @@ paths_cache

\* The part of the session a call works on: the two caches and the
\* counters; raised is the band index at which an exception left the
\* generator, 0 while none did.
Cur ==
    [cache |-> np_band_cache, paths |-> band_paths_cache, nreads |-> nreads,
     vrts |-> 0, first |-> first, raised |-> 0]

\* read_raster_window(...).next() raised (lines 424-430, and in
\* Sentinel2Tile lines 368-378, the IOError of the VRT build included):
\* nothing follows in the generator, the exception goes to the caller
raise_at(st, band_index) == [st EXCEPT !.raised = band_index]

\* A plausible slip: the window is read without asking the cache.
bands_from_cache_uncached(st, band_index) ==
    { [st EXCEPT !.cache = (band_index :> band) @@ st.cache,
                 !.nreads[band_index] = @ + 1] : band \in SessionReads }

\* A plausible slip: the all-masked band of a session without source tiles
\* is made without the last pixel of the session's shape.
bands_from_cache_short_zeros(st, band_index) ==
    IF band_index \in DOMAIN st.cache THEN {st}
    ELSE IF kind = "process" /\ Len(tile_paths) = 0
    THEN { [st EXCEPT !.cache =
              (band_index :> masked_array([p \in 1..(NPix - 1) |-> 0],
                                          [p \in 1..(NPix - 1) |-> TRUE])) @@ st.cache] }
    ELSE { [st EXCEPT !.cache = (band_index :> band) @@ st.cache,
                      !.nreads[band_index] = @ + 1] : band \in SessionReads }

\* A plausible slip: the window is read although no source tile exists.
bands_from_cache_no_empty_case(st, band_index) ==
    IF band_index \in DOMAIN st.cache THEN {st}
    ELSE { [st EXCEPT !.cache = (band_index :> band) @@ st.cache,
                      !.nreads[band_index] = @ + 1] : band \in SessionReads }

\* A plausible slip: the cache gets an all-masked entry for the band before
\* the window is read, and keeps it when the read raises.
bands_from_cache_placeholder(st, band_index) ==
    IF band_index \in DOMAIN st.cache THEN {st}
    ELSE IF kind = "process" /\ Len(tile_paths) = 0
    THEN { [st EXCEPT !.cache = (band_index :> zeros_masked) @@ st.cache] }
    ELSE { [st EXCEPT !.cache = (band_index :> band) @@ st.cache,
                      !.nreads[band_index] = @ + 1] : band \in SessionReads }
         \cup { raise_at([st EXCEPT !.cache = (band_index :> zeros_masked) @@ st.cache],
                         band_index) }

\* _bands_from_cache(inp_handler, indexes), the body of its loop up to the
\* yield, for RasterFileTile and RasterProcessTile: the states it can leave.
\* The band is stored (line 431) after the read has returned (424-430).
bands_from_cache(st, band_index) ==
    IF band_index \in DOMAIN st.cache THEN {st}
    ELSE IF kind = "process" /\ Len(tile_paths) = 0
    THEN { [st EXCEPT !.cache = (band_index :> zeros_masked) @@ st.cache] }
    ELSE { [st EXCEPT !.cache = (band_index :> band) @@ st.cache,
                      !.nreads[band_index] = @ + 1] : band \in SessionReads }
         \cup { raise_at(st, band_index) }

\* Sentinel2Tile._bands_from_cache, the body of its loop up to the yield: one
\* temporary VRT and one window read per srid group, then the merge and the
\* store (line 388); an exception in the loop over the groups leaves the
\* band cache alone, the band paths are cached by then (line 352)
S2_bands_from_cache(st, band_index) ==
    IF band_index \in DOMAIN st.cache THEN {st}
    ELSE LET paths == get_band_paths(st.paths, band_index)
             n == Cardinality(DOMAIN paths[band_index])
         IN IF n = 0
            THEN { [st EXCEPT !.paths = paths,
                              !.cache = (band_index :> zeros_masked) @@ st.cache] }
            ELSE { [st EXCEPT !.paths = paths,
                              !.vrts = @ + n,
                              !.nreads[band_index] = @ + n,
                              !.cache = (band_index :> band) @@ st.cache]
                   : band \in { merge_bands(zeros_masked, srid_bands) :
                                  srid_bands \in [1..n -> SessionReads] } }
                 \cup { raise_at([st EXCEPT !.paths = paths], band_index) }

\* the code before the loop of _bands_from_cache, run by the first next():
\* RasterProcessTile builds its temporary VRT there
bands_from_cache_enter(st) ==
    IF kind = "process" THEN [st EXCEPT !.vrts = @ + 1] ELSE st

\* one next() of the generator: up to the yield of band_index; the open
\* session notes the first array each index got
next_band(st, band_index, started) ==
    LET st0 == IF started \/ kind = "s2" THEN st ELSE bands_from_cache_enter(st)
        after == IF kind = "s2" THEN S2_bands_from_cache(st0, band_index)
                 ELSE bands_from_cache(st0, band_index)
    IN { IF phase = "open" /\ s.raised = 0 /\ band_index \notin DOMAIN s.first
         THEN [s EXCEPT !.first = (band_index :> s.cache[band_index]) @@ s.first]
         ELSE s : s \in after }

\* What a call handed back: the band (read, next) or the answer (is_empty),
\* with what the call did on the way: the temporary VRTs it built and, for
\* is_empty, the outcome of its footprint test and what the bands it was
\* asked about look like once it has returned (all_masked: each of them is
\* cached and wholly masked; some_valid: one of them is cached with a
\* valid pixel).
Ret(op, band_index, arr, empty, vrts) ==
    [op |-> op, band |-> band_index, arr |-> arr, empty |-> empty, vrts |-> vrts,
     intersects |-> TRUE, all_masked |-> FALSE, some_valid |-> FALSE]

Store(st) ==
    /\ np_band_cache' = st.cache
    /\ band_paths_cache' = st.paths
    /\ nreads' = st.nreads
    /\ first' = st.first

Config == <<kind, tile_paths, granules, band_count>>
SessionVars ==
    <<kind, tile_paths, granules, band_count, phase, np_band_cache,
      band_paths_cache, gen,
      ret, nreads, first>>
CompositeVars ==
    <<srid_groups, values_order, n_merged, composite, builds, n_collected,
      mosaic_pc>>
WindowVars ==
    <<source_shape, requested, window, window_data, tile, warp, tile_data, pc>>
OpenVars == <<opening, open_pc, touched, error>>
ObjectVars == <<dicts, cache_of, phases, last>>
CopyVars == <<src_files, dst_files, dst_dirs, overwrite, cp_pc, dst_at_call>>
WriteVars == <<write_args, metadata, px_window, dst_data, write_pc>>

\* the parts of the module a specification does not use stay as they are
NoSession ==
    /\ kind = "none" /\ tile_paths = <<>> /\ granules = <<>> /\ phase = "none"
    /\ band_count = 0
    /\ np_band_cache = <<>> /\ band_paths_cache = <<>> /\ gen = NoGen
    /\ ret = Ret("init", 0, NoBand, FALSE, 0)
    /\ nreads = [b \in Bands |-> 0] /\ first = <<>>
NoComposite ==
    /\ srid_groups = <<>> /\ values_order = <<>> /\ n_merged = 0
    /\ composite = NoBand
    /\ builds = <<>> /\ n_collected = 0 /\ mosaic_pc = "none"
NoWindow ==
    /\ source_shape = <<0, 0>> /\ requested = <<0, 0, 0, 0>>
    /\ window = <<>> /\ window_data = <<>> /\ pc = "none"
    /\ tile = <<>> /\ warp = "" /\ tile_data = <<>>
NoOpen ==
    opening = <<>> /\ open_pc = "none" /\ touched = {} /\ error = ""
NoObjects ==
    dicts = <<>> /\ cache_of = <<>> /\ phases = <<>> /\ last = <<>>
NoCopy ==
    /\ src_files = <<>> /\ dst_files = <<>> /\ dst_dirs = {}
    /\ overwrite = FALSE /\ cp_pc = <<>> /\ dst_at_call = <<>>
NoWrite ==
    /\ write_args = <<>> /\ metadata = <<>> /\ px_window = <<>>
    /\ dst_data = <<>> /\ write_pc = "none"

\* the state after __init__
Init ==
    /\ kind \in {"file", "process", "s2"}
    /\ tile_paths \in {[i \in 1..n |-> i] : n \in 0..(IF kind = "process" THEN MaxTiles ELSE 0)}
    /\ granules \in UNION {[1..n -> Srids] : n \in 0..(IF kind = "s2" THEN MaxGranules ELSE 0)}
    \* the names of the reference systems are interchangeable: the first
    \* granule's is fixed
    /\ granules # <<>> => granules[1] = "utm32"
    /\ band_count \in 1..NBands
    /\ phase = "open"
    /\ np_band_cache = <<>>
    /\ band_paths_cache = <<>>
    /\ gen = NoGen
    /\ ret = Ret("init", 0, NoBand, FALSE, 0)
    /\ nreads = [b \in Bands |-> 0]
    /\ first = <<>>
    /\ NoComposite
    /\ NoWindow
    /\ NoOpen
    /\ NoObjects
    /\ NoCopy
    /\ NoWrite

\* read(indexes): one band is fetched at once and returned, several are
\* returned as a generator that has not run yet
Read(band_indexes) ==
    /\ phase = "open"
    /\ IF Len(band_indexes) = 1
       THEN /\ \E st \in next_band(Cur, band_indexes[1], FALSE) :
                 /\ Store(st)
                 /\ ret' = IF st.raised # 0
                           THEN Ret("raised", st.raised, NoBand, FALSE, st.vrts)
                           ELSE Ret("read", band_indexes[1],
                                    st.cache[band_indexes[1]], FALSE, st.vrts)
            /\ UNCHANGED gen
       ELSE /\ gen' = [req |-> band_indexes, pos |-> 0, temp_vrt |-> FALSE]
            /\ ret' = Ret("gen", 0, NoBand, FALSE, 0)
            /\ UNCHANGED <<np_band_cache, band_paths_cache, nreads, first>>
    /\ UNCHANGED <<Config, phase, CompositeVars, WindowVars, OpenVars, ObjectVars, CopyVars, WriteVars>>

\* temp_vrt of the suspended generator after a next(): the
\* NamedTemporaryFile of line 402 or of the last pass of line 362 stays
\* bound to the local until the generator ends; nothing closes it
frame_temp_vrt(held, built) == held \/ built > 0

\* next() on the generator read returned, while bands are left; a
\* generator that an exception has left is finished
GenNext ==
    /\ gen # NoGen
    /\ gen.pos < Len(gen.req)
    /\ LET band_index == gen.req[gen.pos + 1]
       IN \E st \in next_band(Cur, band_index, gen.pos > 0) :
            /\ Store(st)
            /\ IF st.raised # 0
               THEN /\ ret' = Ret("raised", st.raised, NoBand, FALSE, st.vrts)
                    /\ gen' = [gen EXCEPT !.pos = Len(gen.req), !.temp_vrt = FALSE]
               ELSE /\ ret' = Ret("next", band_index, st.cache[band_index],
                                   FALSE, st.vrts)
                    /\ gen' = [gen EXCEPT !.pos = @ + 1,
                                          !.temp_vrt = frame_temp_vrt(@, st.vrts)]
    /\ UNCHANGED <<Config, phase, CompositeVars, WindowVars, OpenVars, ObjectVars, CopyVars, WriteVars>>

\* next() on the generator after its last band: StopIteration
GenStop ==
    /\ gen # NoGen
    /\ gen.pos = Len(gen.req)
    /\ gen' = NoGen
    /\ ret' = Ret("stop", 0, NoBand, FALSE, 0)
    /\ UNCHANGED <<Config, phase, np_band_cache, band_paths_cache, nreads, first>>
    /\ UNCHANGED <<CompositeVars, WindowVars, OpenVars, ObjectVars, CopyVars, WriteVars>>

\* A plausible slip: all_bands_empty is set without the break, the loop
\* goes on through the bands that are left.
RECURSIVE is_empty_loop_no_break(_, _, _)
is_empty_loop_no_break(st, band_indexes, i) ==
    IF i > Len(band_indexes) THEN {[st |-> st, empty |-> TRUE]}
    ELSE UNION { IF s.raised # 0
                 THEN {[st |-> s, empty |-> FALSE]}
                 ELSE { [r EXCEPT !.empty = @ /\ mask_all(s.cache[band_indexes[i]])] :
                          r \in is_empty_loop_no_break(s, band_indexes, i + 1) }
                 : s \in next_band(st, band_indexes[i], i > 1) }

\* the loop of is_empty over a fresh generator: it stops at the first band
\* that is not wholly masked
RECURSIVE is_empty_loop(_, _, _)
is_empty_loop(st, band_indexes, i) ==
    IF i > Len(band_indexes) THEN {[st |-> st, empty |-> TRUE]}
    ELSE UNION { IF s.raised # 0 \/ ~mask_all(s.cache[band_indexes[i]])
                 THEN {[st |-> s, empty |-> FALSE]}
                 ELSE is_empty_loop(s, band_indexes, i + 1)
                 : s \in next_band(st, band_indexes[i], i > 1) }

\* A plausible slip: the bands are consulted before the footprint test.
is_empty_no_footprint_test(st, band_indexes, intersects) ==
    is_empty_loop(st, band_indexes, 1)

\* A plausible slip: the first band alone decides.
is_empty_first_band_only(st, band_indexes, intersects) ==
    IF ~intersects THEN {[st |-> st, empty |-> TRUE]}
    ELSE IF kind = "process" /\ Len(tile_paths) = 0 THEN {[st |-> st, empty |-> TRUE]}
    ELSE is_empty_loop(st, SubSeq(band_indexes, 1, 1), 1)

\* is_empty of the three classes on the session state st, after
\* _get_band_indexes: the footprint
\* test (intersects: what tile_geom.intersects(src_bbox) gives in this call),
\* RasterProcessTile's test for source tiles, then the bands
is_empty(st, band_indexes, intersects) ==
    IF ~intersects THEN {[st |-> st, empty |-> TRUE]}
    ELSE IF kind = "process" /\ Len(tile_paths) = 0 THEN {[st |-> st, empty |-> TRUE]}
    ELSE is_empty_loop(st, band_indexes, 1)

\* the band indexes a call is about
Requested(band_indexes) == { band_indexes[i] : i \in DOMAIN band_indexes }

IsEmpty(band_indexes) ==
    /\ phase = "open"
    /\ \E intersects \in BOOLEAN :
         \E r \in is_empty(Cur, band_indexes, intersects) :
            /\ Store(r.st)
            /\ ret' = [Ret(IF r.st.raised # 0 THEN "raised" ELSE "is_empty",
                           r.st.raised, NoBand, r.empty, r.st.vrts)
                          EXCEPT !.intersects = intersects,
                                 !.all_masked =
                                     \A b \in Requested(band_indexes) :
                                        b \in DOMAIN r.st.cache /\ mask_all(r.st.cache[b]),
                                 !.some_valid =
                                     \E b \in Requested(band_indexes) :
                                        b \in DOMAIN r.st.cache /\ ~mask_all(r.st.cache[b])]
    /\ UNCHANGED <<Config, phase, gen, CompositeVars, WindowVars, OpenVars, ObjectVars, CopyVars, WriteVars>>

\* __exit__(t, value, tb), whatever ended the with block
Exit ==
    /\ phase = "open"
    /\ phase' = "closed"
    /\ np_band_cache' = <<>>
    /\ nreads' = [b \in Bands |-> 0]
    /\ first' = <<>>
    /\ ret' = Ret("exit", 0, NoBand, FALSE, 0)
    /\ UNCHANGED <<Config, band_paths_cache, gen, CompositeVars, WindowVars, OpenVars, ObjectVars, CopyVars, WriteVars>>

vars == <<SessionVars, CompositeVars, WindowVars, OpenVars, ObjectVars, CopyVars,
         WriteVars>>

\* the band index lists _get_band_indexes makes of the forms of the argument
BandIndexes == { get_band_indexes(indexes) : indexes \in Requests }

Next ==
    \/ \E band_indexes \in BandIndexes : Read(band_indexes)
    \/ \E band_indexes \in BandIndexes : IsEmpty(band_indexes)
    \/ GenNext
    \/ GenStop
    \/ Exit

Spec == Init /\ [][Next]_vars

(* ------------------------ properties of the session -------------------- *)
\* the reference-system groups of the granules
NumGroups == Cardinality({granules[i] : i \in DOMAIN granules})

\* the session has no usable source member
ZeroSources ==
    \/ kind = "process" /\ tile_paths = <<>>
    \/ kind = "s2" /\ granules = <<>>

C2_ClosedCacheStaysEmpty ==
    phase = "closed" => np_band_cache = <<>>

\* C6: an is_empty call whose footprint test finds the tile disjoint from
\* the source answers True, reads no window, builds no temporary VRT and
\* leaves the band cache (and the band path cache) as it was.
C6_DisjointIsEmpty ==
    [][(ret'.op = "is_empty" /\ ~ret'.intersects) =>
          /\ ret'.empty
          /\ ret'.vrts = 0
          /\ nreads' = nreads
          /\ np_band_cache' = np_band_cache
          /\ band_paths_cache' = band_paths_cache]_vars

\* is_empty has answered for a disjoint tile while bands were still unread
C6_Witness ==
    /\ ret.op = "is_empty" /\ ~ret.intersects /\ ret.empty
    /\ np_band_cache = <<>>
    /\ ~ZeroSources

\* C7: when the tile meets the footprint and sources resolve, is_empty
\* answers True exactly when every band it was asked about is wholly masked,
\* and False exactly when one of them has a valid pixel.
C7_IsEmptyIffAllMasked ==
    (ret.op = "is_empty" /\ ret.intersects /\ ~ZeroSources) =>
        /\ ret.empty <=> ret.all_masked
        /\ ~ret.empty <=> ret.some_valid

\* is_empty answered False with band 1 wholly masked: band 2 decided
C7_Witness ==
    /\ ret.op = "is_empty" /\ ret.intersects /\ ~ret.empty /\ ret.some_valid
    /\ 1 \in DOMAIN np_band_cache /\ mask_all(np_band_cache[1])
    /\ 2 \in DOMAIN np_band_cache /\ ~mask_all(np_band_cache[2])
    /\ first = (1 :> np_band_cache[1]) @@ (2 :> np_band_cache[2])
    /\ nreads[1] = 1 /\ nreads[2] = 1 /\ ret.vrts = 0

\* C8: a session without usable source members never reads a window;
\* is_empty answers True and every band it hands out or caches is a wholly
\* masked array of the session's shape.
C8_ZeroSourcesAllMasked ==
    ZeroSources =>
        /\ \A b \in Bands : nreads[b] = 0
        /\ ret.op = "is_empty" => ret.empty
        /\ ret.op \in {"read", "next"} =>
              /\ mask_all(ret.arr)
              /\ DOMAIN ret.arr.data = Pixels /\ DOMAIN ret.arr.mask = Pixels
        /\ \A b \in DOMAIN np_band_cache :
              /\ mask_all(np_band_cache[b])
              /\ DOMAIN np_band_cache[b].mask = Pixels

\* a process without source tiles: read has handed out band 1, is_empty
\* then answered for a tile that meets the footprint
C8_Witness ==
    /\ kind = "process" /\ tile_paths = <<>>
    /\ 1 \in DOMAIN np_band_cache /\ mask_all(np_band_cache[1])
    /\ ret.op = "is_empty" /\ ret.intersects /\ ret.empty

\* the array has the session's shape (self.shape)
HasTileShape(band) == DOMAIN band.data = Pixels /\ DOMAIN band.mask = Pixels

temp_vrts == IF gen.temp_vrt THEN 1 ELSE 0

\* C20: once the call that built a temporary VRT has returned, and once the
\* session is closed, no temporary VRT of the session is left.
C20_NoTemporaryVrtLeft ==
    temp_vrts = 0

\* the requests that name bands: no index (all bands), a band index, a list
\* of band indexes
NamesBands(indexes) ==
    \/ indexes.t = "none"
    \/ indexes.t = "int" /\ indexes.v[1] >= 1
    \/ indexes.t = "list" /\ indexes.v # <<>>

\* the bands such a request names, in its order: all bands ascending when no
\* index is given
named_bands(indexes) ==
    IF indexes.t = "none" THEN [i \in 1..band_count |-> i] ELSE indexes.v

\* C21: read without an index is read of the bands 1..band_count in
\* ascending order; a request that names exactly one band (a number, a list
\* of one, no index on a source of one band) is answered with that band's
\* array itself; a request that names two or more is answered with a
\* generator that has not run, which then yields one array per index named,
\* in the order named, and stops after the last.
C21_ReadReturnShape ==
    /\ [](\A indexes \in Requests :
            NamesBands(indexes) => get_band_indexes(indexes) = named_bands(indexes))
    /\ [](ret.op = "next" =>
            /\ ret.band = gen.req[gen.pos]
            /\ HasTileShape(ret.arr))
    /\ [][/\ \A indexes \in Requests :
                (/\ NamesBands(indexes)
                 /\ ret'.op \in {"read", "gen", "raised"}
                 /\ ret'.op = "gen" => gen'.req = get_band_indexes(indexes)
                 /\ Read(get_band_indexes(indexes))) =>
                    IF Len(named_bands(indexes)) = 1
                    THEN /\ ret'.band = named_bands(indexes)[1]
                         /\ \/ ret'.op = "raised"
                            \/ ret'.op = "read" /\ HasTileShape(ret'.arr)
                    ELSE /\ ret'.op = "gen"
                         /\ gen' = [req |-> named_bands(indexes), pos |-> 0,
                                    temp_vrt |-> FALSE]
          /\ ret'.op = "stop" => gen.pos = Len(gen.req)]_vars

\* a generator asked for bands 2 and 1 has yielded band 2, then band 1
C21_Witness ==
    /\ gen.req = <<2, 1>> /\ gen.pos = 2
    /\ ret.op = "next" /\ ret.band = 1 /\ HasTileShape(ret.arr)
    /\ 2 \in DOMAIN np_band_cache

\* the places at which granule i's path of band b stands in the groups g:
\* (srid, position) pairs
PlacesOf(g, i, b) ==
    { sk \in UNION { {srid} \X DOMAIN g[srid] : srid \in DOMAIN g } :
        g[sk[1]][sk[2]] = <<i, b>> }

\* C24: the groups kept for a band index are a partition of the granules by
\* srid: every granule's band path stands in exactly one group, once, under
\* the granule's srid; a group holds nothing else, none is empty, and there
\* are as many groups as distinct srids.
C24_GroupsPartitionBySrid ==
    \A b \in DOMAIN band_paths_cache :
        LET g == band_paths_cache[b]
        IN /\ \A i \in DOMAIN granules :
                 /\ Cardinality(PlacesOf(g, i, b)) = 1
                 /\ \A sk \in PlacesOf(g, i, b) : sk[1] = granules[i]
           /\ \A srid \in DOMAIN g :
                 /\ g[srid] # <<>>
                 /\ \A k \in DOMAIN g[srid] :
                       \E i \in DOMAIN granules :
                           g[srid][k] = <<i, b>> /\ granules[i] = srid
           /\ Cardinality(DOMAIN g) = NumGroups

\* the granules of two reference systems grouped for band 1: two groups of
\* one granule each
C24_Witness ==
    /\ kind = "s2" /\ Len(granules) = 2 /\ granules[1] # granules[2]
    /\ 1 \in DOMAIN band_paths_cache
    /\ Cardinality(DOMAIN band_paths_cache[1]) = 2
    /\ band_paths_cache[1][granules[2]] = <<<<2, 1>>>>

\* C25: a call on a RasterProcessTile whose bands are all cached already
\* builds no temporary VRT: a read of one band that is in the cache, and an
\* is_empty when every band of the source is in the cache.
C25_CachedBandsBuildNoMosaic ==
    [][kind = "process" =>
          /\ (ret'.op = "read" /\ ret'.band \in DOMAIN np_band_cache) =>
                ret'.vrts = 0
          /\ (ret'.op = "is_empty" /\ DOMAIN np_band_cache = 1..band_count) =>
                ret'.vrts = 0]_vars

(* ------------------------ sessions side by side ------------------------ *)
\* the session objects, opened one after the other on the same kind of
\* source, each for a tile of its own
Sessions == {"a", "b"}

\* A plausible slip: the band cache is a dictionary of the class, one for
\* all its instances.
new_dict_of_class(session) == "a"

\* "self._np_band_cache = {}" (lines 67, 199 and 205): a new dictionary,
\* known to this session alone
new_dict(session) == session

\* what a call on one of the sessions gave
Last(session, op, band_index, arr, empty) ==
    [session |-> session, op |-> op, band |-> band_index, arr |-> arr,
     empty |-> empty]

\* the state after the constructors have run
InitSessions ==
    /\ kind \in {"file", "process"}
    /\ tile_paths \in {[i \in 1..n |-> i] : n \in 0..(IF kind = "process" THEN MaxTiles ELSE 0)}
    /\ granules = <<>>
    /\ band_count \in 1..NBands
    /\ phase = "none"
    /\ np_band_cache = <<>> /\ band_paths_cache = <<>> /\ gen = NoGen
    /\ ret = Ret("init", 0, NoBand, FALSE, 0)
    /\ nreads = [b \in Bands |-> 0] /\ first = <<>>
    /\ cache_of = [session \in Sessions |-> new_dict(session)]
    /\ dicts = [d \in {new_dict(session) : session \in Sessions} |-> <<>>]
    /\ phases = [session \in Sessions |-> "open"]
    /\ last = Last("none", "init", 0, NoBand, FALSE)
    /\ NoComposite
    /\ NoWindow
    /\ NoOpen
    /\ NoCopy
    /\ NoWrite

\* the part of one session a call works on: the dictionary its attribute
\* _np_band_cache is bound to at the time of the call
StateOf(session) ==
    [cache |-> dicts[cache_of[session]], paths |-> <<>>,
     nreads |-> [b \in Bands |-> 0], vrts |-> 0, first |-> <<>>, raised |-> 0]

\* session.read(band_index)
SessionRead(session, band_index) ==
    /\ phases[session] = "open"
    /\ \E st \in next_band(StateOf(session), band_index, FALSE) :
         /\ dicts' = [dicts EXCEPT ![cache_of[session]] = st.cache]
         /\ last' = IF st.raised # 0
                    THEN Last(session, "raised", st.raised, NoBand, FALSE)
                    ELSE Last(session, "read", band_index, st.cache[band_index], FALSE)
    /\ UNCHANGED <<cache_of, phases, SessionVars, CompositeVars, WindowVars, OpenVars, CopyVars, WriteVars>>

\* session.is_empty()
SessionIsEmpty(session) ==
    /\ phases[session] = "open"
    /\ \E intersects \in BOOLEAN :
         \E r \in is_empty(StateOf(session), [i \in 1..band_count |-> i], intersects) :
            /\ dicts' = [dicts EXCEPT ![cache_of[session]] = r.st.cache]
            /\ last' = Last(session, IF r.st.raised # 0 THEN "raised" ELSE "is_empty",
                            r.st.raised, NoBand, r.empty)
    /\ UNCHANGED <<cache_of, phases, SessionVars, CompositeVars, WindowVars, OpenVars, CopyVars, WriteVars>>

\* session.__exit__(...): the attribute is bound to a new dictionary
SessionExit(session) ==
    /\ phases[session] = "open"
    /\ phases' = [phases EXCEPT ![session] = "closed"]
    /\ cache_of' = [cache_of EXCEPT ![session] = new_dict(session)]
    /\ dicts' = [dicts EXCEPT ![new_dict(session)] = <<>>]
    /\ last' = Last(session, "exit", 0, NoBand, FALSE)
    /\ UNCHANGED <<SessionVars, CompositeVars, WindowVars, OpenVars, CopyVars, WriteVars>>

NextSessions ==
    \E session \in Sessions :
        \/ \E band_index \in 1..band_count : SessionRead(session, band_index)
        \/ SessionIsEmpty(session)
        \/ SessionExit(session)

SpecSessions == InitSessions /\ [][NextSessions]_vars

\* the band cache of a session, as the session sees it
CacheOf(session) == dicts[cache_of[session]]

\* C23: a call on one session leaves every other session as it was: the
\* dictionary its band cache is, what that dictionary holds, and whether it
\* is open; and a band a session has cached is what its next read of that
\* band returns, whatever was done on other sessions in between.
C23_SessionsShareNothing ==
    [][/\ \A other \in Sessions \ {last'.session} :
             /\ cache_of'[other] = cache_of[other]
             /\ dicts'[cache_of'[other]] = dicts[cache_of[other]]
             /\ phases'[other] = phases[other]
       /\ \A s1, s2 \in Sessions : s1 # s2 => cache_of'[s1] # cache_of'[s2]
       /\ (last'.op = "read" /\ last'.band \in DOMAIN CacheOf(last'.session)) =>
             last'.arr = CacheOf(last'.session)[last'.band]]_vars

\* session a holds band 1 with a valid pixel; session b has read band 1 of
\* its own tile, wholly masked, and has been closed since
C23_Witness ==
    /\ phases["a"] = "open" /\ phases["b"] = "closed"
    /\ 1 \in DOMAIN CacheOf("a") /\ ~mask_all(CacheOf("a")[1])
    /\ CacheOf("b") = <<>>
    /\ last.session = "b" /\ last.op = "exit"

(* --------------------------- opening a session ------------------------ *)
\* The names of io_funcs.RESAMPLING_METHODS.
RESAMPLING_METHODS ==
    {"nearest", "bilinear", "cubic", "cubic_spline", "lanczos", "average", "mode"}

\* the resampling arguments tried: the default, another known name, an
\* unknown one
ResamplingArgs == {"nearest", "lanczos", "linear"}

\* The pixelbuffer arguments tried: a number in halves (twice its value), of
\* type int or float; an int is a whole number.
PixelbufferArgs ==
    { b \in [type : {"int", "float"}, twice : (-2)..(2 * MaxBuffer)] :
        b.type = "int" => b.twice % 2 = 0 }

\* Constructor calls: the class, its arguments, and what the call finds:
\* exists is os.path.isfile of the input file (RasterFileTile) or of the
\* process file (RasterProcessTile), is_metadata is
\* isinstance(input_file, Sentinel2Metadata) (Sentinel2Tile).
OpenCalls ==
    { c \in [kind : {"file", "process", "s2"}, exists : BOOLEAN,
             is_metadata : BOOLEAN, pixelbuffer : PixelbufferArgs,
             resampling : ResamplingArgs] :
        /\ c.kind = "s2" => c.exists
        /\ c.kind # "s2" => c.is_metadata }

InitOpen ==
    /\ opening \in OpenCalls
    /\ open_pc = "source"
    /\ touched = {}
    /\ error = ""
    /\ NoSession
    /\ NoComposite
    /\ NoWindow
    /\ NoObjects
    /\ NoCopy
    /\ NoWrite

\* an exception leaves __init__
Raise(exception) ==
    /\ error' = exception
    /\ open_pc' = "raised"

\* the statement passed
Pass(next_pc) ==
    /\ open_pc' = next_pc
    /\ UNCHANGED error

\* A plausible slip: only RasterFileTile asserts that its source is on disk.
CheckSource_file_only ==
    /\ open_pc = "source"
    /\ IF opening.kind = "file"
       THEN /\ touched' = touched \cup {"filesystem"}
            /\ IF opening.exists THEN Pass("sign") ELSE Raise("IOError")
       ELSE /\ UNCHANGED touched
            /\ IF opening.is_metadata THEN Pass("sign") ELSE Raise("ValueError")
    /\ UNCHANGED <<opening, SessionVars, CompositeVars, WindowVars,
                   ObjectVars, CopyVars, WriteVars>>

\* The first statement of __init__: "assert os.path.isfile(...)" with
\* IOError (lines 33-37, 163-166), in Sentinel2Tile
\* "assert isinstance(input_file, Sentinel2Metadata)" with ValueError
\* (lines 252-255).
CheckSource ==
    /\ open_pc = "source"
    /\ IF opening.kind \in {"file", "process"}
       THEN /\ touched' = touched \cup {"filesystem"}
            /\ IF opening.exists THEN Pass("sign") ELSE Raise("IOError")
       ELSE /\ UNCHANGED touched
            /\ IF opening.is_metadata THEN Pass("sign") ELSE Raise("ValueError")
    /\ UNCHANGED <<opening, SessionVars, CompositeVars, WindowVars,
                   ObjectVars, CopyVars, WriteVars>>

\* "assert pixelbuffer >= 0" (lines 39-42, 168-171, 257-260)
CheckPixelbufferSign ==
    /\ open_pc = "sign"
    /\ IF opening.pixelbuffer.twice >= 0 THEN Pass("type") ELSE Raise("ValueError")
    /\ UNCHANGED <<opening, touched, SessionVars, CompositeVars, WindowVars,
                   ObjectVars, CopyVars, WriteVars>>

\* "assert isinstance(pixelbuffer, int)" (lines 44-47, 173-176, 262-265)
CheckPixelbufferType ==
    /\ open_pc = "type"
    /\ IF opening.pixelbuffer.type = "int"
       THEN Pass("resampling") ELSE Raise("ValueError")
    /\ UNCHANGED <<opening, touched, SessionVars, CompositeVars, WindowVars,
                   ObjectVars, CopyVars, WriteVars>>

\* "assert resampling in RESAMPLING_METHODS" (lines 49-52, 178-181, 267-270)
CheckResampling ==
    /\ open_pc = "resampling"
    /\ IF opening.resampling \in RESAMPLING_METHODS
       THEN Pass("metadata") ELSE Raise("ValueError")
    /\ UNCHANGED <<opening, touched, SessionVars, CompositeVars, WindowVars,
                   ObjectVars, CopyVars, WriteVars>>

\* The rest of __init__: the attributes, _read_metadata, the empty band
\* cache (lines 54-67, 183-199, 272-289); the object exists.
ReadMetadata ==
    /\ open_pc = "metadata"
    /\ touched' = touched \cup {"metadata"}
    /\ Pass("constructed")
    /\ UNCHANGED <<opening, SessionVars, CompositeVars, WindowVars,
                   ObjectVars, CopyVars, WriteVars>>

NextOpen ==
    \/ CheckSource
    \/ CheckPixelbufferSign
    \/ CheckPixelbufferType
    \/ CheckResampling
    \/ ReadMetadata

SpecOpen == InitOpen /\ [][NextOpen]_vars

\* the parameters the constructor is to refuse
InvalidParameter(c) ==
    \/ c.pixelbuffer.twice < 0
    \/ c.pixelbuffer.type # "int"
    \/ c.resampling \notin RESAMPLING_METHODS

\* C18: a negative or non-integer pixelbuffer or an unknown resampling name
\* ends the constructor with ValueError before any I/O: when the error is
\* raised nothing has been accessed, neither the file system nor the
\* metadata, and no session results.
C18_InvalidParameterBeforeIO ==
    InvalidParameter(opening) =>
        /\ open_pc # "constructed"
        /\ "metadata" \notin touched
        /\ open_pc = "raised" => (error = "ValueError" /\ touched = {})

\* C19: a RasterFileTile or RasterProcessTile whose source is not on disk is
\* refused with IOError by the first statement of the constructor: the
\* metadata is never read and no session results.
C19_MissingSourceIsIOError ==
    (opening.kind \in {"file", "process"} /\ ~opening.exists) =>
        /\ "metadata" \notin touched
        /\ open_pc # "constructed"
        /\ open_pc # "source" => (open_pc = "raised" /\ error = "IOError")

\* a missing source was refused, with parameters that are themselves valid
C19_Witness ==
    /\ opening.kind = "process" /\ ~opening.exists
    /\ ~InvalidParameter(opening)
    /\ open_pc = "raised" /\ error = "IOError"

(* --------------------- the compositor, step by step -------------------- *)
\* After the reads of lines 361-378: one array per srid group.  srid_groups
\* holds them in the order the granules name their reference systems (the
\* only order the caller gives); values_order is the order of
\* self._get_band_paths(band_index).values(), which the language leaves to
\* the dictionary.
InitComposite ==
    /\ \E n \in 1..MaxGranules :
         /\ srid_groups \in [1..n -> ReadArrays]
         /\ values_order \in Orders(n)
    /\ n_merged = 0
    /\ composite = zeros_masked
    /\ builds = [i \in 1..Len(srid_groups) |-> "built"]
    /\ n_collected = Len(srid_groups)
    /\ mosaic_pc = "merge"
    /\ NoSession
    /\ NoWindow
    /\ NoOpen
    /\ NoObjects
    /\ NoCopy
    /\ NoWrite

\* srid_bands, as the loop over .values() collected them
collected == [i \in 1..Len(srid_groups) |-> srid_groups[values_order[i]]]

\* one pass of "for srid_band in srid_bands"
Merge ==
    /\ mosaic_pc = "merge"
    /\ n_merged < Len(srid_groups)
    /\ composite' = merge_group(composite, collected[n_merged + 1])
    /\ n_merged' = n_merged + 1
    /\ UNCHANGED <<srid_groups, values_order, builds, n_collected, mosaic_pc,
                   SessionVars, WindowVars, OpenVars, ObjectVars, CopyVars, WriteVars>>

NextComposite == Merge

SpecComposite == InitComposite /\ [][NextComposite]_vars

(* ----------------------- properties of the compositor ------------------ *)
\* the groups taken so far that are valid at pixel p, by their place in the
\* order of the loop
ValidAt(p) == { i \in 1..n_merged : ~collected[i].mask[p] }

\* C3: the merge starts from the all-invalid array of the tile's shape and,
\* after any number of groups, every pixel carries the value of the first
\* group of the loop's order that is valid there, and is invalid when none
\* is: a later group never changes a valid pixel.
C3_FirstValidGroupWins ==
    /\ (srid_groups # <<>> /\ n_merged = 0) => composite = zeros_masked
    /\ n_merged > 0 =>
         /\ DOMAIN composite.data = Pixels /\ DOMAIN composite.mask = Pixels
         /\ \A p \in Pixels :
              IF ValidAt(p) = {} THEN composite.mask[p]
              ELSE LET i == CHOOSE i \in ValidAt(p) : \A j \in ValidAt(p) : i <= j
                   IN ~composite.mask[p] /\ composite.data[p] = collected[i].data[p]

\* two groups merged: at one pixel both are valid with different values, at
\* another only the second is
C3_Witness ==
    /\ Len(srid_groups) = 2 /\ n_merged = 2
    /\ \E p, q \in Pixels :
         /\ ~collected[1].mask[p] /\ ~collected[2].mask[p]
         /\ collected[1].data[p] # collected[2].data[p]
         /\ collected[1].mask[q] /\ ~collected[2].mask[q]

\* C4: the finished composite is the merge of the groups in the order the
\* caller gave them, whatever the order in which the mapping hands them out.
C4_MergedInCallerOrder ==
    (n_merged > 0 /\ n_merged = Len(srid_groups)) =>
        LET by_priority == merge_bands(zeros_masked, srid_groups)
        IN \A p \in Pixels :
              /\ composite.mask[p] = by_priority.mask[p]
              /\ ~composite.mask[p] => composite.data[p] = by_priority.data[p]

\* C5: a pixel of the finished composite is valid exactly when some group
\* is valid there.
C5_ValidIffSomeGroupValid ==
    (n_merged > 0 /\ n_merged = Len(srid_groups)) =>
        \A p \in Pixels :
            ~composite.mask[p] <=> \E i \in DOMAIN srid_groups : ~srid_groups[i].mask[p]

\* two groups with complementary masks, each valid somewhere: the composite
\* is wholly valid
C5_Witness ==
    /\ Len(srid_groups) = 2 /\ n_merged = 2
    /\ \A p \in Pixels : srid_groups[1].mask[p] # srid_groups[2].mask[p]
    /\ \E p \in Pixels : ~collected[1].mask[p] /\ collected[2].mask[p]
    /\ \E p \in Pixels : collected[1].mask[p]
    /\ \A p \in Pixels : ~composite.mask[p]

(* ------------------ building the mosaics of the groups ----------------- *)
\* How "os.system(build_vrt)" of lines 368-371 can end for one group: the
\* VRT is written ("built"); gdalbuildvrt ends with an error status, which
\* os.system returns and line 369 drops ("status"); os.system itself raises
\* ("raised"), the one case the handler of lines 370-371 sees.
BuildOutcomes == {"built", "status", "raised"}

\* What the window read gives for a VRT that was not written: nothing of the
\* source is read, every pixel is nodata and masked.
nodata_masked ==
    masked_array([p \in Pixels |-> Nodata], [p \in Pixels |-> TRUE])

\* The else branch of lines 358-388 for one band index, from its first
\* statement: the groups are still to be read.
InitMosaic ==
    /\ \E n \in 1..MaxGranules :
         /\ srid_groups \in [1..n -> SessionReads]
         /\ values_order \in Orders(n)
         /\ builds \in [1..n -> BuildOutcomes]
    /\ \A i \in 1..Len(srid_groups) :
         builds[i] # "built" => srid_groups[values_order[i]] = nodata_masked
    /\ n_collected = 0
    /\ n_merged = 0
    /\ composite = zeros_masked
    /\ mosaic_pc = "collect"
    /\ NoSession
    /\ NoWindow
    /\ NoOpen
    /\ NoObjects
    /\ NoCopy
    /\ NoWrite

\* one pass of "for paths in self._get_band_paths(band_index).values()",
\* lines 361-378: the temporary VRT is built and read, or IOError leaves
\* the method
CollectGroup ==
    /\ mosaic_pc = "collect"
    /\ LET i == n_collected + 1
       IN  IF builds[i] = "raised"
           THEN /\ mosaic_pc' = "raised"
                /\ n_collected' = n_collected
           ELSE /\ n_collected' = i
                /\ mosaic_pc' = IF i = Len(srid_groups) THEN "merge" ELSE "collect"
    /\ UNCHANGED <<srid_groups, values_order, builds, n_merged, composite,
                   SessionVars, WindowVars, OpenVars, ObjectVars, CopyVars, WriteVars>>

NextMosaic == CollectGroup \/ Merge

SpecMosaic == InitMosaic /\ [][NextMosaic]_vars

\* C16: a group whose temporary mosaic cannot be built contributes an
\* all-nodata array and the band is still made of the other groups: the
\* method is never left by an error, and the finished band is valid exactly
\* where a group whose mosaic was built is valid (so it is wholly invalid
\* only if no group gave a valid pixel).
C16_FailedGroupIsNodata ==
    /\ mosaic_pc # "raised"
    /\ (mosaic_pc = "merge" /\ n_merged = Len(srid_groups)) =>
          \A p \in Pixels :
              ~composite.mask[p] <=>
                  \E i \in 1..Len(srid_groups) :
                      builds[i] = "built" /\ ~collected[i].mask[p]

(* -------------------------- window resolution -------------------------- *)
\* Python's None and a number, as the offset clean_pixel_coordinates returns
None == [none |-> TRUE, n |-> 0]
Some(n) == [none |-> FALSE, n |-> n]

\* A plausible slip: maximum taken for the last index, not the length.
clean_pixel_coordinates_last_index(coordinate, maximum) ==
    LET offset1 == IF coordinate < 0 THEN Some(-coordinate) ELSE None
        coordinate1 == IF coordinate < 0 THEN 0 ELSE coordinate
    IN IF coordinate1 >= maximum
       THEN <<maximum - 1, Some(coordinate1 - (maximum - 1))>>
       ELSE <<coordinate1, offset1>>

\* A plausible slip: the excess is recorded, the coordinate left as it is.
clean_pixel_coordinates_unclamped(coordinate, maximum) ==
    LET offset1 == IF coordinate < 0 THEN Some(-coordinate) ELSE None
        coordinate1 == IF coordinate < 0 THEN 0 ELSE coordinate
    IN IF coordinate1 > maximum
       THEN <<coordinate1, Some(coordinate1 - maximum)>>
       ELSE <<coordinate1, offset1>>

\* A plausible slip: the deficit recorded with its sign.
clean_pixel_coordinates_signed(coordinate, maximum) ==
    LET offset1 == IF coordinate < 0 THEN Some(coordinate) ELSE None
        coordinate1 == IF coordinate < 0 THEN 0 ELSE coordinate
    IN IF coordinate1 > maximum
       THEN <<maximum, Some(coordinate1 - maximum)>>
       ELSE <<coordinate1, offset1>>

\* clean_pixel_coordinates(coordinate, maximum): (coordinate, offset)
clean_pixel_coordinates(coordinate, maximum) ==
    LET offset1 == IF coordinate < 0 THEN Some(-coordinate) ELSE None
        coordinate1 == IF coordinate < 0 THEN 0 ELSE coordinate
    IN IF coordinate1 > maximum
       THEN <<maximum, Some(coordinate1 - maximum)>>
       ELSE <<coordinate1, offset1>>

\* "if minrow_offset:" and the rows or columns of nodata it then adds
padding(offset) == IF ~offset.none /\ offset.n # 0 THEN offset.n ELSE 0

\* assert tile_geom.intersects(source_envelope), in source pixels: the
\* requested rows meet [0, height] and the requested columns meet [0, width]
tile_intersects_source ==
    /\ requested[1] <= source_shape[1] /\ requested[2] >= 0
    /\ requested[3] <= source_shape[2] /\ requested[4] >= 0

\* A two-dimensional numpy array: its shape and the value at (row, column),
\* counted from 1
ndarray(nrows, ncols, at) == [nrows |-> nrows, ncols |-> ncols, at |-> at]

\* the (row, column) pairs of an array of that shape
indices(nrows, ncols) == (1..nrows) \X (1..ncols)

\* the band of the source: the pixel at row r, column c (counted from 0)
\* holds a value of its own
source_pixel(r, c) == r * source_shape[2] + c

\* source.read(1, window=(rows, cols)): the pixels of the slice
source_read(rows, cols) ==
    LET nrows == rows[2] - rows[1]
        ncols == cols[2] - cols[1]
    IN ndarray(nrows, ncols,
               [rc \in indices(nrows, ncols) |->
                   source_pixel(rows[1] + rc[1] - 1, cols[1] + rc[2] - 1)])

\* nullarray = np.empty(shape); nullarray[:] = source_nodata
nullarray(nrows, ncols) ==
    ndarray(nrows, ncols, [rc \in indices(nrows, ncols) |-> Nodata])

\* np.concatenate((a, b), axis=0) and np.concatenate((a, b), axis=1)
concatenate_rows(a, b) ==
    ndarray(a.nrows + b.nrows, a.ncols,
            [rc \in indices(a.nrows + b.nrows, a.ncols) |->
                IF rc[1] <= a.nrows THEN a.at[rc]
                ELSE b.at[<<rc[1] - a.nrows, rc[2]>>]])
concatenate_cols(a, b) ==
    ndarray(a.nrows, a.ncols + b.ncols,
            [rc \in indices(a.nrows, a.ncols + b.ncols) |->
                IF rc[2] <= a.ncols THEN a.at[rc]
                ELSE b.at[<<rc[1], rc[2] - a.ncols>>]])

\* A plausible slip: the rows missing above are repeated from the first row
\* read instead of being filled with nodata.
pad_window_stretch(data, w) ==
    LET stretch == [rc \in indices(w.minrow_offset.n, data.ncols) |->
                       IF data.nrows > 0 THEN data.at[<<1, rc[2]>>] ELSE Nodata]
        d1 == IF padding(w.minrow_offset) # 0
              THEN concatenate_rows(ndarray(w.minrow_offset.n, data.ncols, stretch), data)
              ELSE data
        d2 == IF padding(w.maxrow_offset) # 0
              THEN concatenate_rows(d1, nullarray(w.maxrow_offset.n, d1.ncols))
              ELSE d1
        d3 == IF padding(w.mincol_offset) # 0
              THEN concatenate_cols(nullarray(d2.nrows, w.mincol_offset.n), d2)
              ELSE d2
    IN IF padding(w.maxcol_offset) # 0
       THEN concatenate_cols(d3, nullarray(d3.nrows, w.maxcol_offset.n))
       ELSE d3

\* A plausible slip: every block of nodata is appended after the data, the
\* rows missing above and the columns missing left as well.
pad_window_appended(data, w) ==
    LET d1 == IF padding(w.minrow_offset) # 0
              THEN concatenate_rows(data, nullarray(w.minrow_offset.n, data.ncols))
              ELSE data
        d2 == IF padding(w.maxrow_offset) # 0
              THEN concatenate_rows(d1, nullarray(w.maxrow_offset.n, d1.ncols))
              ELSE d1
        d3 == IF padding(w.mincol_offset) # 0
              THEN concatenate_cols(d2, nullarray(d2.nrows, w.mincol_offset.n))
              ELSE d2
    IN IF padding(w.maxcol_offset) # 0
       THEN concatenate_cols(d3, nullarray(d3.nrows, w.maxcol_offset.n))
       ELSE d3

\* lines 81-100: rows of nodata above and below, then columns of nodata
\* left and right, each where the offset is set
pad_window(data, w) ==
    LET d1 == IF padding(w.minrow_offset) # 0
              THEN concatenate_rows(nullarray(w.minrow_offset.n, data.ncols), data)
              ELSE data
        d2 == IF padding(w.maxrow_offset) # 0
              THEN concatenate_rows(d1, nullarray(w.maxrow_offset.n, d1.ncols))
              ELSE d1
        d3 == IF padding(w.mincol_offset) # 0
              THEN concatenate_cols(nullarray(d2.nrows, w.mincol_offset.n), d2)
              ELSE d2
    IN IF padding(w.maxcol_offset) # 0
       THEN concatenate_cols(d3, nullarray(d3.nrows, w.maxcol_offset.n))
       ELSE d3

\* affine.Affine(a, b, c, d, e, f): (col, row) |-> (a*col + b*row + c,
\* d*col + e*row + f)
Affine(a, b, c, d, e, f) == [a |-> a, b |-> b, c |-> c, d |-> d, e |-> e, f |-> f]

\* Affine.translation(xoff, yoff)
translation(xoff, yoff) == Affine(1, 0, xoff, 0, 1, yoff)

\* Affine.__mul__ on two transforms: other is applied first
affine_mul(self, other) ==
    Affine(self.a * other.a + self.b * other.d,
           self.a * other.b + self.b * other.e,
           self.a * other.c + self.b * other.f + self.c,
           self.d * other.a + self.e * other.d,
           self.d * other.b + self.e * other.e,
           self.d * other.c + self.e * other.f + self.f)

\* Affine.__mul__ on a point: transform * (col, row)
affine_apply(self, col, row) ==
    <<self.a * col + self.b * row + self.c, self.d * col + self.e * row + self.f>>

\* source.affine of the sources looked at: a north-up raster of 2 by 2 map
\* units a pixel with its upper left corner at (10, 20), and a rotated one
SourceAffines == {Affine(2, 0, 10, 0, -2, 20), Affine(1, 1, 0, 1, -3, 5)}

\* lines 102-103: window_vector_affine and window_affine, the value of
\* window_meta['transform']
window_affine(source_affine) ==
    LET window_vector_affine ==
            translation(window.window_offset_col, window.window_offset_row)
    IN affine_mul(source_affine, window_vector_affine)

\* lines 41-46: the tile's side in pixels, buffer included
destination_pixel ==
    IF tile.pixelbuffer # 0 THEN tile.px_per_tile + (tile.pixelbuffer * 2)
    ELSE tile.px_per_tile
destination_shape == <<destination_pixel, destination_pixel>>

\* What reproject can leave in destination_data, a bare array (np.zeros of
\* destination_shape) without a mask: dst_nodata where the window gave
\* nothing and a value elsewhere.  Three cases stand for the rest: nothing
\* valid, the first pixel valid, every pixel valid.
reproject(shape) ==
    LET px == indices(shape[1], shape[2])
    IN { ndarray(shape[1], shape[2], [rc \in px |-> Nodata]),
         ndarray(shape[1], shape[2], [rc \in px |-> IF rc = <<1, 1>> THEN 1 ELSE Nodata]),
         ndarray(shape[1], shape[2], [rc \in px |-> 1]) }

\* lines 132-139: reproject raised; destination_data = None, the exception
\* is raised again and caught by the outer handler
reproject_failed == None

\* the arguments and the source, which the call leaves as they are
WindowInputs == <<source_shape, requested, tile>>

\* A source, a tile (px_per_tile pixels a side, with or without a
\* pixelbuffer) and the window source.index gives for the tile's bounds:
\* minrow <= maxrow and mincol <= maxcol (a tile narrower than a source
\* pixel indexes to one row or column), anywhere around the source.
InitWindow ==
    /\ source_shape \in (1..MaxExtent) \X (1..MaxExtent)
    /\ requested \in
         { r \in (-MaxOver..MaxExtent + MaxOver) \X (-MaxOver..MaxExtent + MaxOver)
                 \X (-MaxOver..MaxExtent + MaxOver) \X (-MaxOver..MaxExtent + MaxOver) :
             /\ r[1] <= r[2] /\ r[2] <= source_shape[1] + MaxOver
             /\ r[3] <= r[4] /\ r[4] <= source_shape[2] + MaxOver }
    /\ tile \in [px_per_tile : 1..MaxTilePx, pixelbuffer : 0..MaxBuffer]
    /\ window = <<>>
    /\ window_data = <<>>
    /\ warp = ""
    /\ tile_data = <<>>
    /\ pc = "call"
    /\ NoSession
    /\ NoComposite
    /\ NoOpen
    /\ NoObjects
    /\ NoCopy
    /\ NoWrite

\* lines 20-31: the source is opened for its metadata, outside the try
\* block: what rasterio.open raises reaches the caller
OpenSource ==
    /\ pc = "call"
    /\ \E opened \in BOOLEAN : pc' = IF opened THEN "start" ELSE "raised"
    /\ UNCHANGED <<WindowInputs, window, window_data, warp, tile_data>>
    /\ UNCHANGED <<SessionVars, CompositeVars, OpenVars, ObjectVars, CopyVars, WriteVars>>

\* A plausible slip: the assertion stands outside the try block.
WindowDisjoint_raises ==
    /\ pc = "start"
    /\ ~tile_intersects_source
    /\ pc' = "raised"
    /\ UNCHANGED <<WindowInputs, window, window_data, warp, tile_data>>
    /\ UNCHANGED <<SessionVars, CompositeVars, OpenVars, ObjectVars, CopyVars, WriteVars>>

\* the assertion fails: tile_metadata, tile_data = None, None
WindowDisjoint ==
    /\ pc = "start"
    /\ ~tile_intersects_source
    /\ tile_data' = None
    /\ pc' = "disjoint"
    /\ UNCHANGED <<WindowInputs, window, window_data, warp>>
    /\ UNCHANGED <<SessionVars, CompositeVars, OpenVars, ObjectVars, CopyVars, WriteVars>>

\* A plausible slip: the window's origin is saved after the coordinate has
\* been cleaned.
window_offset_cleaned(coordinate, cleaned) == cleaned[1]

\* lines 71-72: window_offset_row = minrow, window_offset_col = mincol, as
\* source.index gave them, before clean_pixel_coordinates
window_offset(coordinate, cleaned) == coordinate

\* lines 69-78: the window's origin saved, the four coordinates cleaned,
\* rows and cols formed
ResolveWindow ==
    /\ pc = "start"
    /\ tile_intersects_source
    /\ LET minrow == clean_pixel_coordinates(requested[1], source_shape[1])
           maxrow == clean_pixel_coordinates(requested[2], source_shape[1])
           mincol == clean_pixel_coordinates(requested[3], source_shape[2])
           maxcol == clean_pixel_coordinates(requested[4], source_shape[2])
       IN window' = [rows |-> <<minrow[1], maxrow[1]>>,
                     cols |-> <<mincol[1], maxcol[1]>>,
                     minrow_offset |-> minrow[2], maxrow_offset |-> maxrow[2],
                     mincol_offset |-> mincol[2], maxcol_offset |-> maxcol[2],
                     window_offset_row |-> window_offset(requested[1], minrow),
                     window_offset_col |-> window_offset(requested[3], mincol)]
    /\ pc' = "resolved"
    /\ UNCHANGED <<WindowInputs, window_data, warp, tile_data>>
    /\ UNCHANGED <<SessionVars, CompositeVars, OpenVars, ObjectVars, CopyVars, WriteVars>>

\* line 80: window_data = source.read(1, window=(rows, cols))
ReadWindow ==
    /\ pc = "resolved"
    /\ window_data' = source_read(window.rows, window.cols)
    /\ pc' = "read"
    /\ UNCHANGED <<WindowInputs, window, warp, tile_data>>
    /\ UNCHANGED <<SessionVars, CompositeVars, OpenVars, ObjectVars, CopyVars, WriteVars>>

\* lines 81-100: the four paddings
PadWindow ==
    /\ pc = "read"
    /\ window_data' = pad_window(window_data, window)
    /\ pc' = "padded"
    /\ UNCHANGED <<WindowInputs, window, warp, tile_data>>
    /\ UNCHANGED <<SessionVars, CompositeVars, OpenVars, ObjectVars, CopyVars, WriteVars>>

\* lines 111-142, without tilify: the padded window is what is returned
ReturnWindow ==
    /\ pc = "padded"
    /\ warp' = "off"
    /\ tile_data' = window_data
    /\ pc' = "returned"
    /\ UNCHANGED <<WindowInputs, window, window_data, SessionVars, CompositeVars, OpenVars, ObjectVars, CopyVars, WriteVars>>

\* lines 114-142, with tilify: reproject fills destination_data, which is
\* returned, or raises; the handlers of lines 132-139 then leave
\* tile_metadata, tile_data = None, None
Reproject ==
    /\ pc = "padded"
    /\ \/ /\ warp' = "ok"
          /\ tile_data' \in reproject(destination_shape)
       \/ /\ warp' = "failed"
          /\ tile_data' = reproject_failed
    /\ pc' = "returned"
    /\ UNCHANGED <<WindowInputs, window, window_data, SessionVars, CompositeVars, OpenVars, ObjectVars, CopyVars, WriteVars>>

NextWindow ==
    \/ OpenSource
    \/ WindowDisjoint
    \/ ResolveWindow
    \/ ReadWindow
    \/ PadWindow
    \/ ReturnWindow
    \/ Reproject

SpecWindow == InitWindow /\ [][NextWindow]_vars

(* ---------------------- copying a tile directory ----------------------- *)
\* a path that holds no file
Absent == <<"absent">>

\* "metadata.json" under the directory
metadata_path == <<"metadata.json">>

\* the tiles tp.tiles_from_geom yields over the zoom levels, in the order of
\* the two loops: two tiles a zoom level, (zoom, row, col)
CpTiles == [i \in 1..MaxCpTiles |-> <<(i - 1) \div 2, 0, (i - 1) % 2>>]

\* _get_tile_path(tile): "{zoom}/{row}/{col}.tif", as path components
get_tile_path(t) == <<t[1], t[2], <<t[3], "tif">>>>

\* the paths cp passes to _copy, relative to input_ and to output
CpPaths == {metadata_path} \cup { get_tile_path(CpTiles[i]) : i \in DOMAIN CpTiles }

\* os.path.dirname(path), and the directories mkdir(..., create_parents=True)
\* makes sure of: the directory and every directory above it, output itself
\* included
dirname(path) == SubSeq(path, 1, Len(path) - 1)
with_parents(dir) == { SubSeq(dir, 1, n) : n \in 0..Len(dir) }

\* the directories the files of a directory tree lie in
dirs_of(files) ==
    UNION { with_parents(dirname(path)) : path \in { q \in DOMAIN files : files[q] # Absent } }

\* the bytes the source holds at a path, and bytes of another origin
SrcContent(path) == <<"src", path>>
OldContent(path) == <<"old", path>>

\* A plausible slip: the directory is made before the source is looked at.
copy_mkdir_first(src, files, dirs, path, ow) ==
    IF files[path] # Absent /\ ~ow
    THEN [files |-> files, dirs |-> dirs]
    ELSE IF src[path] = Absent
    THEN [files |-> files, dirs |-> dirs \cup with_parents(dirname(path))]
    ELSE [files |-> [files EXCEPT ![path] = src[path]],
          dirs |-> dirs \cup with_parents(dirname(path))]

\* _copy(src_fs, src_path, dst_fs, dst_path, overwrite) with src_path and
\* dst_path the same path under input_ and under output: the destination
\* it leaves.  src_fs.copy (line 112) and the read and write of lines
\* 114-116 both put the source's bytes at dst_path.
copy(src, files, dirs, path, ow) ==
    IF files[path] # Absent /\ ~ow
    THEN [files |-> files, dirs |-> dirs]
    ELSE IF src[path] = Absent
    THEN [files |-> files, dirs |-> dirs]
    ELSE [files |-> [files EXCEPT ![path] = src[path]],
          dirs |-> dirs \cup with_parents(dirname(path))]

\* the overwrite argument of the two calls of _copy in cp (82-87, 96-101):
\* none is passed, the default of line 104 applies
DefaultOverwrite == FALSE

\* where cp stands: not called ("idle"), before the metadata is copied
\* (82-87), in the loops over the tiles (89-101), returned ("done"), or left
\* by the exception of line 63 ("raised"); i counts the tiles passed
CpAt(run, at, i) == [run |-> run, at |-> at, i |-> i]

\* A source and a destination directory, input_ and output being different
\* directories: any of the paths may hold a file at either, the
\* destination's files are of another origin than the source's, and its
\* directories are those its files lie in.  cp has not been called;
\* overwrite is the argument it will be called with.
InitCopy ==
    /\ src_files \in { [path \in CpPaths |-> IF path \in present THEN SrcContent(path) ELSE Absent] :
                          present \in SUBSET CpPaths }
    /\ dst_files \in { [path \in CpPaths |-> IF path \in present THEN OldContent(path) ELSE Absent] :
                          present \in SUBSET CpPaths }
    /\ dst_dirs = dirs_of(dst_files)
    /\ overwrite \in BOOLEAN
    /\ cp_pc = CpAt(0, "idle", 0)
    /\ dst_at_call = <<>>
    /\ NoSession
    /\ NoComposite
    /\ NoWindow
    /\ NoOpen
    /\ NoObjects
    /\ NoWrite

\* the destination after a call of _copy
StoreCopy(dst) ==
    /\ dst_files' = dst.files
    /\ dst_dirs' = dst.dirs

\* _copy called on its own, with either value of overwrite
Copy(path, ow) ==
    /\ cp_pc.at = "idle"
    /\ StoreCopy(copy(src_files, dst_files, dst_dirs, path, ow))
    /\ UNCHANGED <<src_files, overwrite, cp_pc, dst_at_call>>
    /\ UNCHANGED <<SessionVars, CompositeVars, WindowVars, OpenVars, ObjectVars, WriteVars>>

\* cp is called, the first time or again with the same arguments; lines
\* 58-79: the source's metadata.json is opened and read, which raises when
\* the source has none
CpReadMetadata ==
    /\ \/ cp_pc.at = "idle"
       \/ cp_pc.at = "done" /\ cp_pc.run = 1
    /\ cp_pc' = CpAt(cp_pc.run + 1,
                     IF src_files[metadata_path] = Absent THEN "raised" ELSE "metadata", 0)
    /\ dst_at_call' = IF cp_pc.run = 0 THEN dst_files ELSE dst_at_call
    /\ UNCHANGED <<src_files, dst_files, dst_dirs, overwrite>>
    /\ UNCHANGED <<SessionVars, CompositeVars, WindowVars, OpenVars, ObjectVars, WriteVars>>

\* lines 82-87: _copy of metadata.json
CpCopyMetadata ==
    /\ cp_pc.at = "metadata"
    /\ StoreCopy(copy(src_files, dst_files, dst_dirs, metadata_path, DefaultOverwrite))
    /\ cp_pc' = [cp_pc EXCEPT !.at = "tiles"]
    /\ UNCHANGED <<src_files, overwrite, dst_at_call>>
    /\ UNCHANGED <<SessionVars, CompositeVars, WindowVars, OpenVars, ObjectVars, WriteVars>>

\* lines 89-101: _copy of the next tile
CpCopyTile ==
    /\ cp_pc.at = "tiles"
    /\ cp_pc.i < Len(CpTiles)
    /\ StoreCopy(copy(src_files, dst_files, dst_dirs,
                      get_tile_path(CpTiles[cp_pc.i + 1]), DefaultOverwrite))
    /\ cp_pc' = [cp_pc EXCEPT !.i = @ + 1]
    /\ UNCHANGED <<src_files, overwrite, dst_at_call>>
    /\ UNCHANGED <<SessionVars, CompositeVars, WindowVars, OpenVars, ObjectVars, WriteVars>>

\* the loops are through: cp returns
CpReturn ==
    /\ cp_pc.at = "tiles"
    /\ cp_pc.i = Len(CpTiles)
    /\ cp_pc' = [cp_pc EXCEPT !.at = "done"]
    /\ UNCHANGED <<src_files, dst_files, dst_dirs, overwrite, dst_at_call>>
    /\ UNCHANGED <<SessionVars, CompositeVars, WindowVars, OpenVars, ObjectVars, WriteVars>>

NextCopy ==
    \/ \E path \in CpPaths, ow \in BOOLEAN : Copy(path, ow)
    \/ CpReadMetadata
    \/ CpCopyMetadata
    \/ CpCopyTile
    \/ CpReturn

SpecCopy == InitCopy /\ [][NextCopy]_vars

(* --------------------------- writing a tile ---------------------------- *)
\* the zoom levels looked at and the tiles of a pyramid that has one tile
\* at zoom 0 and twice as many a side with each level: (zoom, col, row)
Zooms == {0, 1}
TileIndexes ==
    { t \in Zooms \X (0..1) \X (0..1) : t[1] = 0 => (t[2] = 0 /\ t[3] = 0) }

\* tilematrix.pixelsize(zoom), in map units: a pixel halves with each level
pixelsize(zoom) == IF zoom = 0 THEN 2 ELSE 1

\* tilematrix.tile_bounds(zoom, col, row, pixelbuffer): (left, bottom,
\* right, top) of the tile, widened by pixelbuffer pixels on every side;
\* the pyramid's upper left corner is the origin, y grows upwards
tile_bounds(px_per_tile, zoom, col, row, pixelbuffer) ==
    LET tile_size == px_per_tile * pixelsize(zoom)
        offset == pixelsize(zoom) * pixelbuffer
    IN <<col * tile_size - offset,
         -((row + 1) * tile_size) - offset,
         (col + 1) * tile_size + offset,
         -(row * tile_size) + offset>>

\* int(round(num / den)) on floats: Python 2's round takes a half away
\* from zero
int_round(num, den) ==
    LET n == IF den < 0 THEN -num ELSE num
        d == IF den < 0 THEN -den ELSE den
    IN IF n >= 0 THEN (2 * n + d) \div (2 * d)
       ELSE -((2 * (-n) + d) \div (2 * d))

\* slice(start, stop).indices(n): a negative bound counts from the end,
\* and both are clipped to the axis
slice_index(i, n) ==
    IF i < 0 THEN (IF i + n < 0 THEN 0 ELSE i + n)
    ELSE (IF i > n THEN n ELSE i)

\* a[rows[1]:rows[2], cols[1]:cols[2]] of a two-dimensional array
getitem(a, rows, cols) ==
    LET r0 == slice_index(rows[1], a.nrows)
        r1 == slice_index(rows[2], a.nrows)
        c0 == slice_index(cols[1], a.ncols)
        c1 == slice_index(cols[2], a.ncols)
        nrows == IF r1 > r0 THEN r1 - r0 ELSE 0
        ncols == IF c1 > c0 THEN c1 - c0 ELSE 0
    IN ndarray(nrows, ncols,
               [rc \in indices(nrows, ncols) |-> a.at[<<r0 + rc[1], c0 + rc[2]>>]])

\* rasterdata: an array of the given shape, each pixel with a value of its
\* own
rasterdata_of(nrows, ncols) ==
    ndarray(nrows, ncols,
            [rc \in indices(nrows, ncols) |-> (rc[1] - 1) * ncols + (rc[2] - 1)])

\* lines 155-158: the bounds of the tile with its buffer, and the size
\* that goes into the output's metadata
out_bounds ==
    tile_bounds(write_args.px_per_tile, write_args.tileindex[1],
                write_args.tileindex[2], write_args.tileindex[3],
                write_args.pixelbuffer)
out_left == out_bounds[1]
out_bottom == out_bounds[2]
out_right == out_bounds[3]
out_top == out_bounds[4]
out_width == write_args.px_per_tile + (write_args.pixelbuffer * 2)
out_height == write_args.px_per_tile + (write_args.pixelbuffer * 2)

\* lines 160-170: calculate_default_transform within one reference system
\* and at the given resolution: north-up from the upper left corner
destination_affine ==
    LET res == pixelsize(write_args.tileindex[1])
    IN Affine(res, 0, out_left, 0, -res, out_top)

\* A call of write_raster_window: a tile of the pyramid, with or without a
\* pixelbuffer, an array of any shape up to MaxData a side, and its
\* metadata: a north-up transform at the pixel size of the tile's zoom
\* level whose upper left corner lies up to MaxOver pixels from that of the
\* buffered tile in either direction, on the pixel grid or off it.
InitWrite ==
    /\ write_args \in
         [tileindex : TileIndexes, px_per_tile : 1..MaxTilePx,
          pixelbuffer : 0..MaxBuffer,
          rasterdata : { rasterdata_of(nrows, ncols) :
                            nrows \in 1..MaxData, ncols \in 1..MaxData }]
    /\ metadata \in
         LET res == pixelsize(write_args.tileindex[1])
             shifts == (-(MaxOver * res))..(MaxOver * res)
         IN { [transform |-> Affine(res, 0, out_left + dx, 0, -res, out_top + dy),
               width |-> write_args.rasterdata.ncols,
               height |-> write_args.rasterdata.nrows] :
                 dx \in shifts, dy \in shifts }
    /\ px_window = <<>>
    /\ dst_data = <<>>
    /\ write_pc = "call"
    /\ NoSession
    /\ NoComposite
    /\ NoWindow
    /\ NoOpen
    /\ NoObjects
    /\ NoCopy

\* lines 172-184: the write window in pixels of the input
WritePixelWindow ==
    /\ write_pc = "call"
    /\ LET res == pixelsize(write_args.tileindex[1])
           input_left == metadata.transform.c
           input_top == metadata.transform.f
       IN px_window' =
             [px_left |-> int_round(out_left - input_left, res),
              px_bottom |-> int_round(out_bottom - input_top, -res),
              px_right |-> int_round(input_left - out_right, -res),
              px_top |-> int_round(input_top - out_top, res)]
    /\ write_pc' = "window"
    /\ UNCHANGED <<write_args, metadata, dst_data>>
    /\ UNCHANGED <<SessionVars, CompositeVars, WindowVars, OpenVars, ObjectVars, CopyVars>>

\* line 188: dst_data = rasterdata[px_top:px_bottom,px_left:px_right]
WriteSlice ==
    /\ write_pc = "window"
    /\ dst_data' = getitem(write_args.rasterdata,
                           <<px_window.px_top, px_window.px_bottom>>,
                           <<px_window.px_left, px_window.px_right>>)
    /\ write_pc' = "sliced"
    /\ UNCHANGED <<write_args, metadata, px_window>>
    /\ UNCHANGED <<SessionVars, CompositeVars, WindowVars, OpenVars, ObjectVars, CopyVars>>

\* lines 191-195: dst_metadata is the caller's dictionary; it takes the
\* size and the transform of the buffered tile, and the output file is
\* opened with it
WriteOpen ==
    /\ write_pc = "sliced"
    /\ metadata' = [metadata EXCEPT !.width = out_width,
                                    !.height = out_height,
                                    !.transform = destination_affine]
    /\ write_pc' = "opened"
    /\ UNCHANGED <<write_args, px_window, dst_data>>
    /\ UNCHANGED <<SessionVars, CompositeVars, WindowVars, OpenVars, ObjectVars, CopyVars>>

\* line 196: dst.write_band(1, dst_data).  An array of the dataset's shape
\* is written.  With one of another shape rasterio either raises or hands
\* the buffer to GDAL as if it had the dataset's shape, depending on its
\* version.
WriteBand ==
    /\ write_pc = "opened"
    /\ write_pc' \in
         IF <<dst_data.nrows, dst_data.ncols>> = <<metadata.height, metadata.width>>
         THEN {"written"}
         ELSE {"written", "raised"}
    /\ UNCHANGED <<write_args, metadata, px_window, dst_data>>
    /\ UNCHANGED <<SessionVars, CompositeVars, WindowVars, OpenVars, ObjectVars, CopyVars>>

NextWrite ==
    \/ WritePixelWindow
    \/ WriteSlice
    \/ WriteOpen
    \/ WriteBand

SpecWrite == InitWrite /\ [][NextWrite]_vars

(* -------------------- properties of window resolution ------------------ *)
height == source_shape[1]
width == source_shape[2]

\* the rows or columns of nodata added on each edge
top == padding(window.minrow_offset)
bottom == padding(window.maxrow_offset)
left == padding(window.mincol_offset)
right == padding(window.maxcol_offset)

\* C9: a requested window that lies inside the source is resolved to itself,
\* with no offset on any of the four edges.
C9_InsideWindowUnchanged ==
    (/\ pc = "resolved"
     /\ 0 <= requested[1] /\ requested[2] <= height
     /\ 0 <= requested[3] /\ requested[4] <= width) =>
        /\ top = 0 /\ bottom = 0 /\ left = 0 /\ right = 0
        /\ window.rows = <<requested[1], requested[2]>>
        /\ window.cols = <<requested[3], requested[4]>>

\* a window that ends exactly on the source's last row and last column
C9_Witness ==
    /\ pc = "resolved"
    /\ 0 <= requested[1] /\ requested[2] = height
    /\ 0 <= requested[3] /\ requested[4] = width

IsMasked(a) == a # None /\ "mask" \in DOMAIN a

\* C14: the array the warp step returns carries a validity mask in which
\* exactly the pixels equal to nodata are invalid.
C14_WarpedMaskIsNodata ==
    (pc = "returned" /\ warp = "ok") =>
        /\ IsMasked(tile_data)
        /\ \A rc \in DOMAIN tile_data.at :
              tile_data.mask[rc] <=> (tile_data.at[rc] = Nodata)

\* the value is an array of the tile's shape filled with nodata
IsNodataFilled(a) ==
    /\ a # None
    /\ a.nrows = destination_shape[1] /\ a.ncols = destination_shape[2]
    /\ \A rc \in DOMAIN a.at : a.at[rc] = Nodata

\* C15: when the warp fails, what is returned is a nodata-filled array of
\* the tile's shape, not a null value.
C15_FailedWarpIsNodataFilled ==
    (pc = "returned" /\ warp = "failed") => IsNodataFilled(tile_data)

\* C17: a tile that does not meet the source ends the window read with the
\* empty result None; an exception reaches the caller only from opening
\* the source, never from the disjoint geometry.
C17_DisjointNeverRaises ==
    [][/\ (pc = "start" /\ ~tile_intersects_source) =>
             (pc' = "disjoint" /\ tile_data' = None)
       /\ pc' = "raised" => pc = "call"]_vars

\* the requested rows lie wholly above the source: None has been returned
C17_Witness ==
    /\ pc = "disjoint" /\ tile_data = None
    /\ requested[2] < 0

\* The source covers one corner quadrant of the requested window: the window
\* is twice the source in rows and in columns and starts at the source's
\* origin or one source length before it.
CornerQuadrant ==
    /\ <<requested[1], requested[2]>> \in {<<0, 2 * height>>, <<-height, height>>}
    /\ <<requested[3], requested[4]>> \in {<<0, 2 * width>>, <<-width, width>>}

C26_RaiseLeavesCacheAlone ==
    /\ [](ret.op = "raised" => ret.band \notin DOMAIN np_band_cache)
    /\ [][/\ ret'.op = "raised" =>
                /\ \A b \in DOMAIN np_band_cache :
                      /\ b \in DOMAIN np_band_cache'
                      /\ np_band_cache'[b] = np_band_cache[b]
                /\ np_band_cache' # np_band_cache =>
                      \E band_indexes \in BandIndexes :
                         Len(band_indexes) > 1 /\ IsEmpty(band_indexes)
          /\ (/\ ret.op = "raised"
              /\ ret'.op \in {"read", "next"}
              /\ ret'.band = ret.band) =>
                /\ nreads'[ret.band] > nreads[ret.band]
                /\ ret.band \in DOMAIN np_band_cache']_vars

\* the read of band 2 raised while band 1 was cached
C26_Witness ==
    /\ ret.op = "raised" /\ ret.band = 2
    /\ DOMAIN np_band_cache = {1}
    /\ nreads[1] > 0 /\ nreads[2] = 0

\* a step leaves band index b alone: no window read, no entry added or dropped
Untouched(b) ==
    /\ (b \in DOMAIN np_band_cache') = (b \in DOMAIN np_band_cache)
    /\ nreads'[b] = nreads[b]

\* C27: a read of two or more indexes reads no window and leaves the band
\* cache as it is; each next() on its result reads and caches the one band
\* that is next in the requested order and leaves every other index alone;
\* an is_empty that answers False has stopped at the first requested band
\* with a valid pixel and has left alone every index it had not reached.
C27_LazyOrderedPopulation ==
    [][/\ ret'.op = "gen" =>
            /\ Len(gen'.req) >= 2 /\ gen'.pos = 0
            /\ np_band_cache' = np_band_cache
            /\ nreads' = nreads
       /\ ret'.op = "next" =>
            /\ gen'.req = gen.req /\ gen'.pos = gen.pos + 1
            /\ ret'.band = gen.req[gen'.pos]
            /\ ret'.band \in DOMAIN np_band_cache'
            /\ \A b \in Bands \ {ret'.band} : Untouched(b)
       /\ \A band_indexes \in BandIndexes :
            (/\ ret'.op = "is_empty" /\ ret'.intersects /\ ~ret'.empty
             /\ IsEmpty(band_indexes)) =>
                \E k \in 1..Len(band_indexes) :
                   /\ ~mask_all(np_band_cache'[band_indexes[k]])
                   /\ \A j \in 1..(k - 1) : mask_all(np_band_cache'[band_indexes[j]])
                   /\ \A b \in Bands \ { band_indexes[j] : j \in 1..k } : Untouched(b)]_vars

\* the generator of read([2, 1]) has yielded band 2 and is suspended: band 1
\* has not been read
C27_Witness ==
    /\ gen.req = <<2, 1>> /\ gen.pos = 1
    /\ ret.op = "next" /\ ret.band = 2
    /\ DOMAIN np_band_cache = {2}
    /\ nreads[1] = 0 /\ nreads[2] > 0

CopyPost(path, ow) ==
    IF (dst_files[path] # Absent /\ ~ow) \/ src_files[path] = Absent
    THEN UNCHANGED <<dst_files, dst_dirs>>
    ELSE dst_files'[path] = src_files[path]

\* C29: a call of _copy leaves the destination's files and directories as
\* they are when the destination path exists and overwrite is false, and
\* when the source path does not exist; otherwise the destination path
\* holds the source's content afterwards.  No step of a second run of cp
\* with the same arguments changes the destination.
C29_CopyKeepsAndFills ==
    [][/\ \A path \in CpPaths, ow \in BOOLEAN : Copy(path, ow) => CopyPost(path, ow)
       /\ CpCopyMetadata => CopyPost(metadata_path, DefaultOverwrite)
       /\ CpCopyTile => CopyPost(get_tile_path(CpTiles[cp_pc'.i]), DefaultOverwrite)
       /\ cp_pc.run = 2 => UNCHANGED <<dst_files, dst_dirs>>]_vars

\* cp has run twice: the metadata file the destination had is kept, the
\* first tile was copied with its directories, the second tile is missing
\* at the source and at the destination
C29_Witness ==
    /\ cp_pc = CpAt(2, "done", MaxCpTiles)
    /\ dst_at_call[metadata_path] = OldContent(metadata_path)
    /\ dst_files[metadata_path] = OldContent(metadata_path)
    /\ dst_at_call[get_tile_path(CpTiles[1])] = Absent
    /\ dst_files[get_tile_path(CpTiles[1])] = SrcContent(get_tile_path(CpTiles[1]))
    /\ dirname(get_tile_path(CpTiles[1])) \in dst_dirs
    /\ src_files[get_tile_path(CpTiles[2])] = Absent
    /\ dst_files[get_tile_path(CpTiles[2])] = Absent

\* C30: when cp has returned, a file that exists at the source and existed
\* at the destination holds the source's content if cp was called with
\* overwrite=True, and what it held before if cp was called with
\* overwrite=False.
C30_OverwriteReplaces ==
    (cp_pc.at = "done" /\ cp_pc.run = 1) =>
        \A path \in CpPaths :
           (src_files[path] # Absent /\ dst_at_call[path] # Absent) =>
               dst_files[path] = IF overwrite THEN src_files[path] ELSE dst_at_call[path]

\* C31: the array write_raster_window hands to write_band has the height
\* and the width the output's metadata declares, px_per_tile + 2 *
\* pixelbuffer on each axis, whatever the input array and its transform,
\* also when the input does not cover the buffered tile.
C31_WrittenShapeAsDeclared ==
    write_pc \in {"written", "raised"} =>
        /\ metadata.width = write_args.px_per_tile + 2 * write_args.pixelbuffer
        /\ metadata.height = write_args.px_per_tile + 2 * write_args.pixelbuffer
        /\ dst_data.ncols = metadata.width
        /\ dst_data.nrows = metadata.height

============================================================================
